---- MODULE Spec2Model ----
(***************************************************************************)
(* A model of package gen (internal/gen/gen.go): the field-list parser,    *)
(* the struct builder, the string-literal helper, the tag accessor and the *)
(* Function builder with its Decl method.                                  *)
(*                                                                         *)
(* Go strings are sequences of one-character strings.  A Go pointer,       *)
(* slice-or-nil or error value is Nil (<<>>) or Ptr(v) (<<v>>).            *)
(***************************************************************************)
EXTENDS Integers, Sequences, FiniteSets, TLC

VARIABLES
    this,      \* the *Function under construction: Nil before Func, else its address
    fn,        \* the fields of that Function (type Function, gen.go 167-171)
    lastSet,   \* history: the name given to Func and, per field, the argument
               \* of the latest call of its setter
    call       \* the latest call made: its operation, its arguments, what it returned

vars == <<this, fn, lastSet, call>>

----------------------------------------------------------------------------
(* Values *)

Nil == <<>>
Ptr(v) == <<v>>
Deref(p) == p[1]

\* Characters that TLA+ string literals cannot hold are named.
DQ == "dquote"       \* the double quote
BT == "backtick"     \* the backtick
BS == "backslash"    \* the backslash
CR == "cr"           \* carriage return
LF == "lf"           \* line feed
SP == " "

\* An error value: the format string of the source and its operands.
Err(format, operands) == [msg |-> format, operands |-> operands]

\* The diagnostics of go/parser are not modelled beyond their existence.
ParseError == Err("parse error", <<>>)

SeqsUpTo(S, n) == UNION {[1..k -> S] : k \in 0..n}

----------------------------------------------------------------------------
(* package strings *)

\* strings.Contains(s, c) for a one-character c.
Contains(s, c) == \E i \in 1..Len(s) : s[i] = c

\* strings.Index(s, c) for a one-character c, 1-based; 0 when absent.
Index(s, c) ==
    IF Contains(s, c)
    THEN CHOOSE i \in 1..Len(s) : s[i] = c /\ \A j \in 1..(i - 1) : s[j] # c
    ELSE 0

\* A mutant of SplitN2: the split is made at the last separator.
SplitN2AtLast(s, sep) ==
    IF Contains(s, sep)
    THEN LET i == CHOOSE k \in 1..Len(s) :
                      s[k] = sep /\ \A j \in (k + 1)..Len(s) : s[j] # sep
         IN  <<SubSeq(s, 1, i - 1), SubSeq(s, i + 1, Len(s))>>
    ELSE <<s>>

\* strings.SplitN(s, sep, 2): at most two parts, split at the first sep.  The
\* result always has at least one part: SplitN("", " ", 2) is [""].
SplitN2(s, sep) ==
    LET i == Index(s, sep)
    IN  IF i = 0 THEN <<s>>
        ELSE <<SubSeq(s, 1, i - 1), SubSeq(s, i + 1, Len(s))>>

RECURSIVE SplitAll(_, _)
\* strings.Split(s, sep): every part.
SplitAll(s, sep) ==
    LET i == Index(s, sep)
    IN  IF i = 0 THEN <<s>>
        ELSE <<SubSeq(s, 1, i - 1)>> \o SplitAll(SubSeq(s, i + 1, Len(s)), sep)

----------------------------------------------------------------------------
(* go/scanner and go/parser, on the characters the model feeds them *)

\* The letters that occur in the inputs of the model and in the diagnostics of fmt
\* (MISSING, EXTRA, NOVERB, string).  No identifier built from them where
\* the model can place them is a Go keyword.
Letters == {"a", "x", "s", "r", "T", "F",
            "M", "I", "S", "N", "G", "E", "X", "R", "A", "O", "V", "B",
            "t", "i", "n", "g"}

\* One-character operator and delimiter tokens.
OpChars == {"*", "%", "!", "(", ")", "=", ","}

Tok(k, v) == [k |-> k, v |-> v]

RECURSIVE Lex(_, _, _, _)
\* The token sequence of s from position i on; cur is the identifier being
\* read and acc the tokens read so far.  Blanks separate tokens.
Lex(s, i, cur, acc) ==
    LET flushed == IF cur = <<>> THEN acc ELSE Append(acc, Tok("id", cur))
    IN  IF i > Len(s) THEN flushed
        ELSE IF s[i] \in Letters THEN Lex(s, i + 1, Append(cur, s[i]), acc)
        ELSE IF s[i] = SP THEN Lex(s, i + 1, <<>>, flushed)
        ELSE IF s[i] \in OpChars
             THEN Lex(s, i + 1, <<>>, Append(flushed, Tok("op", <<s[i]>>)))
        ELSE Lex(s, i + 1, <<>>, Append(flushed, Tok("illegal", <<s[i]>>)))

Tokens(s) == Lex(s, 1, <<>>, <<>>)

IsOp(toks, i, c) == i <= Len(toks) /\ toks[i] = Tok("op", <<c>>)

RECURSIVE ExprEnd(_, _), UnaryEnd(_, _), PrimaryEnd(_, _), CallsEnd(_, _)
\* Each gives the position after the longest phrase starting at i, or 0 when
\* there is none.  Expression = Unary { ("*" | "%") Unary }.
ExprEnd(toks, i) ==
    LET j == UnaryEnd(toks, i)
    IN  IF j = 0 THEN 0
        ELSE IF IsOp(toks, j, "*") \/ IsOp(toks, j, "%") THEN ExprEnd(toks, j + 1)
        ELSE j

\* Unary = { "*" | "!" } Primary.
UnaryEnd(toks, i) ==
    IF i > Len(toks) THEN 0
    ELSE IF IsOp(toks, i, "*") \/ IsOp(toks, i, "!") THEN UnaryEnd(toks, i + 1)
    ELSE PrimaryEnd(toks, i)

\* Primary = ( identifier | "(" Expression ")" ) { call arguments }.
PrimaryEnd(toks, i) ==
    IF i > Len(toks) THEN 0
    ELSE IF toks[i].k = "id" THEN CallsEnd(toks, i + 1)
    ELSE IF IsOp(toks, i, "(")
         THEN LET j == ExprEnd(toks, i + 1)
              IN  IF j # 0 /\ IsOp(toks, j, ")") THEN CallsEnd(toks, j + 1) ELSE 0
    ELSE 0

\* Call arguments = "(" [ Expression ] ")".  "=" and "," reach the parser only
\* inside the parentheses of a fmt diagnostic, next to two adjacent
\* identifiers, where no expression continues.
CallsEnd(toks, i) ==
    IF ~IsOp(toks, i, "(") THEN i
    ELSE IF IsOp(toks, i + 1, ")") THEN CallsEnd(toks, i + 2)
    ELSE LET j == ExprEnd(toks, i + 1)
         IN  IF j # 0 /\ IsOp(toks, j, ")") THEN CallsEnd(toks, j + 1) ELSE 0

\* Whether the tokens are exactly one expression.
IsExpr(toks) == Len(toks) > 0 /\ ExprEnd(toks, 1) = Len(toks) + 1

\* parser.ParseExpr(x): the tree (its token sequence: the grammar above is
\* unambiguous, so the tokens determine the tree) or an error.
ParseExpr(x) ==
    LET toks == Tokens(x)
    IN  IF IsExpr(toks) THEN [expr |-> Ptr(toks), err |-> Nil]
        ELSE [expr |-> Nil, err |-> Ptr(ParseError)]

----------------------------------------------------------------------------
(* package strconv *)

RECURSIVE QuoteBody(_)
\* The escaped form of each character, as strconv.Quote writes it.
QuoteBody(s) ==
    IF s = <<>> THEN <<>>
    ELSE (CASE Head(s) = DQ -> <<BS, DQ>>
            [] Head(s) = BS -> <<BS, BS>>
            [] Head(s) = CR -> <<BS, "r">>
            [] Head(s) = LF -> <<BS, "n">>
            [] OTHER -> <<Head(s)>>) \o QuoteBody(Tail(s))

\* strconv.Quote(s): a double-quoted Go string literal.
Quote(s) == <<DQ>> \o QuoteBody(s) \o <<DQ>>

----------------------------------------------------------------------------
(* package fmt *)

Missing == <<"(", "M", "I", "S", "S", "I", "N", "G", ")">>
NoVerb == <<"%", "!", "(", "N", "O", "V", "E", "R", "B", ")">>
ExtraOpen == <<"%", "!", "(", "E", "X", "T", "R", "A", SP>>
StringEq == <<"s", "t", "r", "i", "n", "g", "=">>

RECURSIVE ExtraOperands(_, _)
\* The operands fmt lists in %!(EXTRA ...), from operand k on: type=value,
\* separated by ", ".
ExtraOperands(v, k) ==
    IF k > Len(v) THEN <<>>
    ELSE StringEq \o v[k]
         \o (IF k < Len(v) THEN <<",", SP>> ELSE <<>>)
         \o ExtraOperands(v, k + 1)

\* The ASCII letters and digits, in the order of their codes.
LowerCase == <<"a", "b", "c", "d", "e", "f", "g", "h", "i", "j", "k", "l", "m",
               "n", "o", "p", "q", "r", "s", "t", "u", "v", "w", "x", "y", "z">>
UpperCase == <<"A", "B", "C", "D", "E", "F", "G", "H", "I", "J", "K", "L", "M",
               "N", "O", "P", "Q", "R", "S", "T", "U", "V", "W", "X", "Y", "Z">>
Digits == <<"0", "1", "2", "3", "4", "5", "6", "7", "8", "9">>

\* The byte that encodes the character c: every character of the model is
\* one byte of UTF-8.
ByteOf(c) ==
    CASE Contains(LowerCase, c) -> 96 + Index(LowerCase, c)
      [] Contains(UpperCase, c) -> 64 + Index(UpperCase, c)
      [] Contains(Digits, c) -> 47 + Index(Digits, c)
      [] c = LF -> 10
      [] c = CR -> 13
      [] c = SP -> 32
      [] c = "!" -> 33
      [] c = DQ -> 34
      [] c = "%" -> 37
      [] c = "(" -> 40
      [] c = ")" -> 41
      [] c = "*" -> 42
      [] c = "," -> 44
      [] c = "/" -> 47
      [] c = "=" -> 61
      [] c = BS -> 92
      [] c = BT -> 96
      [] c = "|" -> 124

\* fmt's ldigits and udigits.
HexDigits(upper) ==
    Digits \o SubSeq(IF upper THEN UpperCase ELSE LowerCase, 1, 6)

RECURSIVE FmtSx(_, _)
\* fmt's fmtSx without flags: two hexadecimal digits for each byte of s.
FmtSx(s, upper) ==
    IF s = <<>> THEN <<>>
    ELSE LET b == ByteOf(Head(s))
         IN  <<HexDigits(upper)[(b \div 16) + 1], HexDigits(upper)[(b % 16) + 1]>>
             \o FmtSx(Tail(s), upper)

\* reflect.TypeOf(arg).String() for a string operand, which %T prints.
TypeString == <<"s", "t", "r", "i", "n", "g">>

RECURSIVE DoPrintf(_, _, _, _, _)
\* fmt's doPrintf for string operands v, on formats whose "%" is followed at
\* once by the verb (no flag, width, precision or index).  i is the position
\* in the format, argNum the operands consumed (0-based count), out the output.
\* With a string operand, verbs s and v print it, x and X print its bytes in
\* hexadecimal, q prints it quoted as strconv.Quote does and T prints its
\* type; any other verb is a bad verb for a string.
DoPrintf(format, i, v, argNum, out) ==
    LET finish(o) ==
            IF argNum < Len(v)
            THEN o \o ExtraOpen \o ExtraOperands(v, argNum + 1) \o <<")">>
            ELSE o
        printArg(arg, verb) ==
            CASE verb = "T" -> TypeString
              [] verb \in {"s", "v"} -> arg
              [] verb = "x" -> FmtSx(arg, FALSE)
              [] verb = "X" -> FmtSx(arg, TRUE)
              [] verb = "q" -> Quote(arg)
              [] OTHER -> <<"%", "!", verb, "(">> \o StringEq \o arg \o <<")">>
    IN  IF i > Len(format) THEN finish(out)
        ELSE IF format[i] # "%"
             THEN DoPrintf(format, i + 1, v, argNum, Append(out, format[i]))
        ELSE IF i = Len(format) THEN finish(out \o NoVerb)
        ELSE LET verb == format[i + 1]
             IN  IF verb = "%"
                 THEN DoPrintf(format, i + 2, v, argNum, Append(out, "%"))
                 ELSE IF argNum >= Len(v)
                 THEN DoPrintf(format, i + 2, v, argNum,
                               out \o <<"%", "!", verb>> \o Missing)
                 ELSE DoPrintf(format, i + 2, v, argNum + 1,
                               out \o printArg(v[argNum + 1], verb))

\* fmt.Sprintf(format, v...).
Sprintf(format, v) == DoPrintf(format, 1, v, 0, <<>>)

----------------------------------------------------------------------------
(* The reading of a string literal *)

RECURSIVE Unescape(_)
\* The value of the inside of an interpreted string literal: Ptr(text), or
\* Nil when it is no valid literal.
Unescape(s) ==
    IF s = <<>> THEN Ptr(<<>>)
    ELSE IF Head(s) \in {DQ, LF, CR} THEN Nil
    ELSE IF Head(s) = BS
         THEN IF Len(s) < 2 THEN Nil
              ELSE LET rest == Unescape(SubSeq(s, 3, Len(s)))
                       c == CASE s[2] = DQ -> Ptr(DQ)
                              [] s[2] = BS -> Ptr(BS)
                              [] s[2] = "r" -> Ptr(CR)
                              [] s[2] = "n" -> Ptr(LF)
                              [] OTHER -> Nil
                   IN  IF c = Nil \/ rest = Nil THEN Nil
                       ELSE Ptr(c \o Deref(rest))
    ELSE LET rest == Unescape(Tail(s))
         IN  IF rest = Nil THEN Nil ELSE Ptr(<<Head(s)>> \o Deref(rest))

\* The text a Go string literal denotes (the language's rule, as go/scanner and
\* strconv.Unquote apply it): a raw literal is its content with every carriage
\* return dropped and can hold no backtick; an interpreted literal is its
\* content with the escapes replaced.  Nil when lit is no literal.
Unquote(lit) ==
    IF Len(lit) < 2 THEN Nil
    ELSE LET inner == SubSeq(lit, 2, Len(lit) - 1)
         IN  IF lit[1] = BT /\ lit[Len(lit)] = BT
             THEN IF Contains(inner, BT) THEN Nil
                  ELSE Ptr(SelectSeq(inner, LAMBDA c : c # CR))
             ELSE IF lit[1] = DQ /\ lit[Len(lit)] = DQ THEN Unescape(inner)
             ELSE Nil

----------------------------------------------------------------------------
(* String, gen.go 87-92 *)

BasicLit(value) == [Kind |-> "STRING", Value |-> value]

\* A mutant of String: the raw form is chosen whenever s holds a double quote.
StringRawOnQuote(s) ==
    IF Contains(s, DQ) THEN BasicLit(<<BT>> \o s \o <<BT>>)
    ELSE BasicLit(Quote(s))

String(s) ==
    IF Contains(s, DQ) /\ ~Contains(s, BT)
    THEN BasicLit(<<BT>> \o s \o <<BT>>)
    ELSE BasicLit(Quote(s))

----------------------------------------------------------------------------
(* FieldList, gen.go 62-83 *)

\* ast.NewIdent(name)
NewIdent(name) == [Name |-> name]

Field(names, type, tag) == [Names |-> names, Type |-> type, Tag |-> tag]

\* A mutant of FieldListFail: the fields parsed so far are returned with the error.
FieldListFailPartial(result, e) == [list |-> Ptr(result), err |-> Ptr(e)]

\* A failing return of FieldList: return nil, fmt.Errorf(...).
FieldListFail(result, e) == [list |-> Nil, err |-> Ptr(e)]

RECURSIVE FieldListLoop(_, _, _)
\* The loop of FieldList from item i on, result being result.List so far.
FieldListLoop(fields, i, result) ==
    IF i > Len(fields) THEN [list |-> Ptr(result), err |-> Nil]
    ELSE LET s == fields[i]
             parts == SplitN2(s, SP)
         IN  IF Len(parts) = 0
             THEN FieldListFail(result, Err("empty field list item %q", <<s>>))
             ELSE LET typeExpr == ParseExpr(parts[Len(parts)])
                      names == IF Len(parts) > 1 THEN <<NewIdent(parts[1])>> ELSE Nil
                  IN  IF typeExpr.err # Nil
                      THEN FieldListFail(result,
                               Err("could not parse type in %q: %v", <<s, typeExpr.err>>))
                      ELSE FieldListLoop(fields, i + 1,
                               Append(result, Field(names, typeExpr.expr, Nil)))

FieldList(fields) == FieldListLoop(fields, 1, <<>>)

----------------------------------------------------------------------------
(* Struct, gen.go 38-58 *)

\* A type assertion x.(*T) on a non-nil interface value.
AssertOk(x, kind) == Deref(x).kind = kind

RECURSIVE StructLoopShared(_, _, _, _)
\* A mutant of StructLoop: one ast.Field variable is declared before the loop,
\* so every element of the list is the same pointer.
StructLoopShared(args, i, list, heap) ==
    IF i >= Len(args) THEN [panic |-> Nil, list |-> list, heap |-> heap]
    ELSE LET name == args[i + 1]
             typ == args[i + 2]
             tag == args[i + 3]
             old == IF heap = <<>> THEN Field(Nil, Nil, Nil) ELSE heap[1]
             f1 == IF name # Nil THEN [old EXCEPT !.Names = <<name>>] ELSE old
             f2 == IF typ # Nil THEN [f1 EXCEPT !.Type = typ] ELSE f1
             f3 == IF tag # Nil THEN [f2 EXCEPT !.Tag = tag] ELSE f2
         IN  StructLoopShared(args, i + 3, Append(list, 1), <<f3>>)

RECURSIVE StructLoop(_, _, _, _)
\* The loop of Struct from args[i] on (i counts from 0, as in the source).
\* Each iteration declares its own ast.Field variable: a fresh address in
\* heap, which maps an address to the ast.Field stored there; list is
\* fields.List, the addresses appended so far.
StructLoop(args, i, list, heap) ==
    IF i >= Len(args) THEN [panic |-> Nil, list |-> list, heap |-> heap]
    ELSE LET name == args[i + 1]
             typ == args[i + 2]
             tag == args[i + 3]
             addr == Len(heap) + 1
             f0 == Field(Nil, Nil, Nil)
             f1 == IF name # Nil THEN [f0 EXCEPT !.Names = <<name>>] ELSE f0
             f2 == IF typ # Nil THEN [f1 EXCEPT !.Type = typ] ELSE f1
             f3 == IF tag # Nil THEN [f2 EXCEPT !.Tag = tag] ELSE f2
         IN  IF (name # Nil /\ ~AssertOk(name, "Ident"))
                \/ (tag # Nil /\ ~AssertOk(tag, "BasicLit"))
             THEN [panic |-> Ptr(Err("interface conversion", <<>>)),
                   list |-> list, heap |-> heap]
             ELSE StructLoop(args, i + 3, Append(list, addr), Append(heap, f3))

\* Struct(args...): a panic, or the *ast.StructType (its Fields.List) with the
\* ast.Field values it allocated.
Struct(args) ==
    IF Len(args) % 3 # 0
    THEN [panic |-> Ptr(Err("Number of args to FieldList must be a multiple of 3, got ",
                            <<Len(args)>>)),
          ret |-> Nil, heap |-> <<>>]
    ELSE LET r == StructLoop(args, 0, <<>>, <<>>)
         IN  IF r.panic # Nil THEN [panic |-> r.panic, ret |-> Nil, heap |-> r.heap]
             ELSE [panic |-> Nil, ret |-> Ptr([Fields |-> [List |-> r.list]]),
                   heap |-> r.heap]

----------------------------------------------------------------------------
(* TagKey, gen.go 285-290 *)

\* reflect.StructTag(tag).Get(key): the value of the first pair of the tag
\* with that key, or the empty string.  A tag is its sequence of key:"value"
\* pairs.
StructTagGet(tag, key) ==
    IF \E i \in 1..Len(tag) : tag[i].key = key
    THEN LET i == CHOOSE k \in 1..Len(tag) :
                      tag[k].key = key /\ \A j \in 1..(k - 1) : tag[j].key # key
         IN  tag[i].val
    ELSE <<>>

\* TagKey(field, key): with a tag the function returns "" at line 287;
\* without one, line 289 reads field.Tag.Value through a nil pointer.
TagKey(field, key) ==
    IF field.Tag # Nil THEN [panic |-> Nil, ret |-> Ptr(<<>>)]
    ELSE [panic |-> Ptr(Err("nil pointer dereference", <<>>)), ret |-> Nil]

----------------------------------------------------------------------------
(* parseBlock, gen.go 259-273 *)

\* parser.ParseFile on "package tmp\nfunc _block() {\n" + s + "\n}", for a
\* text s without braces, semicolons and line breaks: the declarations of the
\* file (the one function, whose body holds no statement or the one expression
\* statement s is), or an error.
ParseFile(s) ==
    LET toks == Tokens(s)
    IN  IF toks = <<>>
        THEN [decls |-> <<[Name |-> "_block", Body |-> [List |-> <<>>]]>>, err |-> Nil]
        ELSE IF IsExpr(toks)
        THEN [decls |-> <<[Name |-> "_block", Body |-> [List |-> <<toks>>]]>>, err |-> Nil]
        ELSE [decls |-> <<>>, err |-> Ptr(ParseError)]

parseBlock(s) ==
    LET file == ParseFile(s)
    IN  IF file.err # Nil THEN [body |-> Nil, err |-> file.err]
        ELSE IF Len(file.decls) > 0
        THEN [body |-> Ptr(file.decls[1].Body), err |-> Nil]
        ELSE [body |-> Nil, err |-> Ptr(Err("parse error: no function found in %q", <<s>>))]

----------------------------------------------------------------------------
(* type Function and its methods, gen.go 167-257 *)

\* The zero value of type Function.
ZeroFunction ==
    [name |-> <<>>, receiver |-> <<>>, godoc |-> <<>>,
     args |-> <<>>, returns |-> <<>>, body |-> <<>>]

\* Func(name): the fields of the new Function.
Func(name) == [ZeroFunction EXCEPT !.name = name]

\* Each setter gives the fields after the call and the pointer it returns;
\* self is the receiver pointer.
Body(self, f, format, v) == [f |-> [f EXCEPT !.body = Sprintf(format, v)], ret |-> self]

\* A mutant of Returns: the values are stored in the args field.
ReturnsIntoArgs(self, f, values) == [f |-> [f EXCEPT !.args = values], ret |-> self]

Returns(self, f, values) == [f |-> [f EXCEPT !.returns = values], ret |-> self]

Comment(self, f, s) == [f |-> [f EXCEPT !.godoc = s], ret |-> self]

Args(self, f, args) == [f |-> [f EXCEPT !.args = args], ret |-> self]

Receiver(self, f, receiver) == [f |-> [f EXCEPT !.receiver = receiver], ret |-> self]

\* A mutant of fl: a group is parsed although an earlier group has failed.
flNoShortCircuit(st, group, args) ==
    IF Len(args) = 0 \/ Len(args[1]) = 0
    THEN [list |-> Nil, err |-> st.err, trace |-> st.trace]
    ELSE LET r == FieldList(args)
         IN  [list |-> r.list, err |-> r.err,
              trace |-> Append(st.trace, [group |-> group, items |-> args,
                                          list |-> r.list, err |-> r.err])]

\* The closure fl of Decl (lines 196-202).  st.err is the captured variable
\* err; st.trace records the calls of FieldList made so far, each with what
\* it returned.  The result is the list returned, err and the trace after it.
fl(st, group, args) ==
    IF Len(args) = 0 \/ Len(args[1]) = 0 \/ st.err # Nil
    THEN [list |-> Nil, err |-> st.err, trace |-> st.trace]
    ELSE LET r == FieldList(args)
         IN  [list |-> r.list, err |-> r.err,
              trace |-> Append(st.trace, [group |-> group, items |-> args,
                                          list |-> r.list, err |-> r.err])]

\* What Decl returns for a builder that passed the two checks at its top.
DeclBuild(f) ==
    LET comments ==
            IF f.godoc # <<>>
            THEN LET lines == SplitAll(f.godoc, LF)
                 IN  Ptr([List |-> [i \in 1..Len(lines) |-> [Text |-> lines[i]]]])
            ELSE Nil
        args == fl([err |-> Nil, trace |-> <<>>], "args", f.args)
        returns == fl(args, "returns", f.returns)
        receiver == fl(returns, "receiver", <<f.receiver>>)
    IN  IF receiver.err # Nil
        THEN [decl |-> Nil, err |-> receiver.err,
              trace |-> receiver.trace, bodyParsed |-> FALSE]
        ELSE LET body == parseBlock(f.body)
             IN  IF body.err # Nil
                 THEN [decl |-> Nil,
                       err |-> Ptr(Err("could not parse function body of %s: %v",
                                       <<f.name, body.err>>)),
                       trace |-> receiver.trace, bodyParsed |-> TRUE]
                 ELSE [decl |-> Ptr([Doc |-> comments,
                                     Recv |-> receiver.list,
                                     Name |-> NewIdent(f.name),
                                     Type |-> [Params |-> args.list,
                                               Results |-> returns.list],
                                     Body |-> body.body]),
                       err |-> Nil,
                       trace |-> receiver.trace, bodyParsed |-> TRUE]

ErrNameUnset == Err("function name unset", <<>>)
\* fmt.Errorf("function body for %s unset") is called without its operand.
ErrBodyUnset == Err("function body for %s unset", <<>>)

DeclFail(e) == [decl |-> Nil, err |-> Ptr(e), trace |-> <<>>, bodyParsed |-> FALSE]

\* A mutant of Decl: the body is checked before the name.
DeclBodyFirst(f) ==
    IF Len(f.body) = 0 THEN DeclFail(ErrBodyUnset)
    ELSE IF f.name = <<>> THEN DeclFail(ErrNameUnset)
    ELSE DeclBuild(f)

\* (fn *Function) Decl(): the declaration and the error returned, with the
\* calls of FieldList made and whether parseBlock was called.
Decl(f) ==
    IF f.name = <<>> THEN DeclFail(ErrNameUnset)
    ELSE IF Len(f.body) = 0 THEN DeclFail(ErrBodyUnset)
    ELSE DeclBuild(f)

----------------------------------------------------------------------------
(* Bounds and inputs *)

MaxArgs == 2         \* longest argument list given to Args
MaxReturns == 1      \* longest list given to Returns
MaxFlat == 6         \* FieldList: characters of all items, plus one per item
MaxStrLen == 3       \* String: longest text
MaxStructArgs == 6   \* Struct: most arguments

FuncNames == {<<>>, <<"F">>}

\* An empty item, a named field, an item that does not parse.
DeclItems == {<<>>, <<"x", SP, "a">>, <<")">>}
ArgLists == SeqsUpTo(DeclItems, MaxArgs)
ReturnLists == SeqsUpTo(DeclItems, MaxReturns)
Receivers == {<<>>, <<"r", SP, "*", "T">>, <<"(">>}
Docs == {<<>>, <<"/", "/", "a", LF, "/", "/", "x">>}

\* Calls of Body: format and operands.
BodyCalls ==
    { << <<"a">>, <<>> >>,                     \* a
      << <<"%", "s">>, << <<>> >> >>,          \* the empty text, through a verb
      << <<"%", "s">>, <<>> >>,                \* %!s(MISSING): does not parse
      << <<"a", "%">>, <<>> >>,                \* a%!(NOVERB): parses
      << <<"a">>, << <<"x">> >> >>,            \* a%!(EXTRA string=x): does not parse
      << <<"%", "T">>, << <<"a">> >> >> }      \* string, the type of the operand: parses

ItemChars == {"a", "x", SP, "*", ")"}
Sep == "|"

RECURSIVE Unflatten(_, _)
\* The items of a flat text in which Sep ends each item.
Unflatten(flat, cur) ==
    IF flat = <<>> THEN <<>>
    ELSE IF Head(flat) = Sep THEN <<cur>> \o Unflatten(Tail(flat), <<>>)
    ELSE Unflatten(Tail(flat), Append(cur, Head(flat)))

RECURSIVE TextsOfLen(_, _)
\* The texts of exactly n characters of S.
TextsOfLen(S, n) ==
    IF n = 0 THEN {<<>>}
    ELSE {Append(t, c) : t \in TextsOfLen(S, n - 1), c \in S}

\* Every list of items over ItemChars whose characters, plus one per item,
\* number at most MaxFlat.
FieldLists ==
    {<<>>} \cup
    { Unflatten(Append(t, Sep), <<>>) :
        t \in UNION {TextsOfLen(ItemChars \cup {Sep}, n) : n \in 0..(MaxFlat - 1)} }

StringChars == {"a", DQ, BT, CR, BS}
Strings == UNION {TextsOfLen(StringChars, n) : n \in 0..MaxStrLen}

\* Arguments of Struct as its comment types them: a name is nil or an
\* *ast.Ident, a tag nil or an *ast.BasicLit, a type nil or an expression.
Node(kind, val) == Ptr([kind |-> kind, val |-> val])
NameArgs == {Nil, Node("Ident", "x"), Node("Ident", "y")}
TypeArgs == {Nil, Node("Ident", "T")}
TagPairs == {<<>>, <<[key |-> "xml", val |-> <<"a">>]>>,
             <<[key |-> "json", val |-> <<"x">>], [key |-> "xml", val |-> <<"a">>]>>}
TagArgs == {Nil} \cup {Node("BasicLit", t) : t \in {<<>>, <<[key |-> "xml", val |-> <<"a">>]>>}}

RECURSIVE StructArgsOfLen(_)
\* The argument lists of n arguments.
StructArgsOfLen(n) ==
    IF n = 0 THEN {<<>>}
    ELSE {Append(a, x) : a \in StructArgsOfLen(n - 1),
                         x \in (CASE n % 3 = 1 -> NameArgs
                                  [] n % 3 = 2 -> TypeArgs
                                  [] OTHER -> TagArgs)}

StructArgs == UNION {StructArgsOfLen(n) : n \in 0..MaxStructArgs}

TagFields == {Field(Nil, Node("Ident", "T"), Nil)}
                 \cup {Field(Nil, Node("Ident", "T"), Node("BasicLit", t)) : t \in TagPairs}
TagKeys == {"xml", "json", "db"}

----------------------------------------------------------------------------
(* The state machine *)

NoCall == [op |-> "none", arg |-> <<>>, res |-> <<>>]
\* lastSet before any call: no call of Body yet, and for the other fields the
\* zero value they start with.
NeverSet ==
    [name |-> <<>>, body |-> Nil, returns |-> <<>>, godoc |-> <<>>, args |-> <<>>,
     receiver |-> <<>>]

Init ==
    /\ this = Nil
    /\ fn = ZeroFunction
    /\ lastSet = NeverSet
    /\ call = NoCall

\* fn := Func(name).  The model follows one builder from its construction.
CallFunc(name) ==
    /\ this = Nil
    /\ this' = Ptr(1)
    /\ fn' = Func(name)
    /\ lastSet' = [NeverSet EXCEPT !.name = name]
    /\ call' = [op |-> "Func", arg |-> name, res |-> Ptr(1)]

\* fn.Body(format, v...)
CallBody(format, v) ==
    /\ this # Nil
    /\ LET r == Body(this, fn, format, v)
       IN  /\ fn' = r.f
           /\ call' = [op |-> "Body", arg |-> <<format, v>>, res |-> r.ret]
    /\ lastSet' = [lastSet EXCEPT !.body = Ptr(<<format, v>>)]
    /\ UNCHANGED this

\* fn.Returns(values...)
CallReturns(values) ==
    /\ this # Nil
    /\ LET r == Returns(this, fn, values)
       IN  /\ fn' = r.f
           /\ call' = [op |-> "Returns", arg |-> values, res |-> r.ret]
    /\ lastSet' = [lastSet EXCEPT !.returns = values]
    /\ UNCHANGED this

\* fn.Comment(s)
CallComment(s) ==
    /\ this # Nil
    /\ LET r == Comment(this, fn, s)
       IN  /\ fn' = r.f
           /\ call' = [op |-> "Comment", arg |-> s, res |-> r.ret]
    /\ lastSet' = [lastSet EXCEPT !.godoc = s]
    /\ UNCHANGED this

\* fn.Args(args...)
CallArgs(args) ==
    /\ this # Nil
    /\ LET r == Args(this, fn, args)
       IN  /\ fn' = r.f
           /\ call' = [op |-> "Args", arg |-> args, res |-> r.ret]
    /\ lastSet' = [lastSet EXCEPT !.args = args]
    /\ UNCHANGED this

\* fn.Receiver(receiver)
CallReceiver(receiver) ==
    /\ this # Nil
    /\ LET r == Receiver(this, fn, receiver)
       IN  /\ fn' = r.f
           /\ call' = [op |-> "Receiver", arg |-> receiver, res |-> r.ret]
    /\ lastSet' = [lastSet EXCEPT !.receiver = receiver]
    /\ UNCHANGED this

\* fn.Decl()
CallDecl ==
    /\ this # Nil
    /\ call' = [op |-> "Decl", arg |-> fn, res |-> Decl(fn)]
    /\ UNCHANGED <<this, fn, lastSet>>

Next ==
    \/ \E name \in FuncNames : CallFunc(name)
    \/ \E c \in BodyCalls : CallBody(c[1], c[2])
    \/ \E values \in ReturnLists : CallReturns(values)
    \/ \E s \in Docs : CallComment(s)
    \/ \E args \in ArgLists : CallArgs(args)
    \/ \E r \in Receivers : CallReceiver(r)
    \/ CallDecl

Spec == Init /\ [][Next]_vars

\* The package's functions, each called from the idle state and returning to it.
CallFieldList ==
    /\ call = NoCall
    /\ \E fields \in FieldLists :
           call' = [op |-> "FieldList", arg |-> fields, res |-> FieldList(fields)]
    /\ UNCHANGED <<this, fn, lastSet>>

CallStruct ==
    /\ call = NoCall
    /\ \E args \in StructArgs :
           call' = [op |-> "Struct", arg |-> args, res |-> Struct(args)]
    /\ UNCHANGED <<this, fn, lastSet>>

CallString ==
    /\ call = NoCall
    /\ \E s \in Strings :
           call' = [op |-> "String", arg |-> s, res |-> String(s)]
    /\ UNCHANGED <<this, fn, lastSet>>

CallTagKey ==
    /\ call = NoCall
    /\ \E field \in TagFields, key \in TagKeys :
           call' = [op |-> "TagKey", arg |-> <<field, key>>, res |-> TagKey(field, key)]
    /\ UNCHANGED <<this, fn, lastSet>>

\* The caller takes the result of a package function and goes on.
Return ==
    /\ call.op \in {"FieldList", "Struct", "String", "TagKey"}
    /\ call' = NoCall
    /\ UNCHANGED <<this, fn, lastSet>>

NextLib ==
    \/ CallFieldList
    \/ CallStruct
    \/ CallString
    \/ CallTagKey
    \/ Return

SpecLib == Init /\ [][NextLib]_vars

\* Both: the package's functions are called before the builder is made.
NextAll == Next \/ NextLib

SpecAll == Init /\ [][NextAll]_vars

----------------------------------------------------------------------------
(* Properties of the Function builder, checked under Spec *)

DeclCalled == call.op = "Decl"

\* C1: Decl on a builder whose name is empty fails with "function name
\* unset"; with a name and an empty body it fails with the body-unset error.
\* Both hold whatever the other fields are, nothing is parsed, and the name
\* is checked first (an empty name wins over an empty body).
C1_DeclUnsetChecks ==
    DeclCalled =>
        /\ call.arg.name = <<>> =>
              /\ call.res.decl = Nil
              /\ call.res.err = Ptr([msg |-> "function name unset", operands |-> <<>>])
              /\ call.res.trace = <<>> /\ ~call.res.bodyParsed
        /\ (call.arg.name # <<>> /\ call.arg.body = <<>>) =>
              /\ call.res.decl = Nil
              /\ call.res.err # Nil
              /\ Deref(call.res.err).msg = "function body for %s unset"
              /\ call.res.trace = <<>> /\ ~call.res.bodyParsed

\* Decl was called with neither name nor body, the other four fields set.
C1_Witness ==
    /\ DeclCalled
    /\ call.arg.name = <<>> /\ call.arg.body = <<>>
    /\ call.arg.args # <<>> /\ call.arg.returns # <<>>
    /\ call.arg.receiver # <<>> /\ call.arg.godoc # <<>>
    /\ Deref(call.res.err).msg = "function name unset"

\* The Function the history describes: the name given to Func and, for each
\* field, what the latest call of its own setter was given.
FunctionOfHistory ==
    [name |-> lastSet.name,
     receiver |-> lastSet.receiver,
     godoc |-> lastSet.godoc,
     args |-> lastSet.args,
     returns |-> lastSet.returns,
     body |-> IF lastSet.body = Nil THEN <<>>
              ELSE Sprintf(Deref(lastSet.body)[1], Deref(lastSet.body)[2])]

\* C2: after any sequence of setter calls every field holds what the latest
\* call of its own setter gave it (the body: the rendering of that call's
\* format and operands), or its zero value; the name is the one given to Func;
\* every setter returns the builder it was called on; and what Decl returns is
\* determined by the latest call per setter.
C2_LastCallPerSetterWins ==
    this # Nil =>
        /\ fn = FunctionOfHistory
        /\ call.op \in {"Body", "Returns", "Comment", "Args", "Receiver"} => call.res = this
        /\ DeclCalled => call.res = Decl(FunctionOfHistory)

\* Every setter has been called, Args last, and the fields hold five distinct
\* non-zero values.
C2_Witness ==
    /\ call.op = "Args" /\ call.res = this
    /\ fn.args = <<<<"x", SP, "a">>, <<")">>>>
    /\ fn.returns = <<<<"x", SP, "a">>>>
    /\ fn.receiver = <<"(">>
    /\ fn.godoc # <<>>
    /\ lastSet.body = Ptr(<<<<"a", "%">>, <<>>>>)
    /\ fn.body = <<"a">> \o NoVerb
    /\ fn.name = <<"F">>

\* The three field groups of a Function in the order Decl handles them.
Groups(f) == <<f.args, f.returns, <<f.receiver>>>>
GroupNames == <<"args", "returns", "receiver">>
\* Decl leaves a group unparsed when it is empty or its first item is empty.
Skipped(items) == items = <<>> \/ items[1] = <<>>
ParseFails(items) == ~Skipped(items) /\ FieldList(items).err # Nil

\* C3: with name and body set, Decl handles args, returns, receiver and then
\* the body.  When a group's parse fails Decl returns that group's error, no
\* later group and not the body is parsed; the error is that of the earliest
\* failing group; the body is parsed, and its error returned, only when no
\* group failed.
C3_EarliestGroupErrorWins ==
    (DeclCalled /\ call.arg.name # <<>> /\ call.arg.body # <<>>) =>
        LET g == Groups(call.arg)
            tr == call.res.trace
            failing == {k \in 1..3 : ParseFails(g[k])}
        IN  /\ \A i \in 1..Len(tr) :
                  /\ \E k \in 1..3 : tr[i].group = GroupNames[k] /\ tr[i].items = g[k]
                  /\ \A j \in (i + 1)..Len(tr) :
                        \E k, m \in 1..3 :
                            k < m /\ tr[i].group = GroupNames[k] /\ tr[j].group = GroupNames[m]
            /\ failing # {} =>
                  LET k0 == CHOOSE k \in failing : \A m \in failing : k <= m
                  IN  /\ call.res.err = FieldList(g[k0]).err
                      /\ call.res.decl = Nil
                      /\ ~call.res.bodyParsed
                      /\ tr # <<>> /\ tr[Len(tr)].group = GroupNames[k0]
                      /\ tr[Len(tr)].err = call.res.err
            /\ failing = {} =>
                  /\ call.res.bodyParsed
                  /\ \A i \in 1..Len(tr) : tr[i].err = Nil
                  /\ call.res.err # Nil =>
                        Deref(call.res.err).msg = "could not parse function body of %s: %v"

\* Decl was called with args and returns that both fail to parse, a receiver
\* that fails too and a body that does not parse: only args was parsed.
C3_Witness ==
    /\ DeclCalled /\ call.arg.name # <<>>
    /\ ParseFails(call.arg.args) /\ ParseFails(call.arg.returns)
    /\ ParseFails(<<call.arg.receiver>>)
    /\ call.arg.body # <<>> /\ parseBlock(call.arg.body).err # Nil
    /\ Len(call.res.trace) = 1 /\ call.res.trace[1].group = "args"
    /\ call.res.err = call.res.trace[1].err

\* C4: no partial result (checked under SpecAll).  Decl returns exactly one of
\* a declaration and an error, and FieldList, called directly or by Decl,
\* exactly one of a field list and an error: the fields parsed before a
\* failing item are discarded.
C4_NoPartialResult ==
    /\ DeclCalled =>
            /\ (call.res.decl = Nil) # (call.res.err = Nil)
            /\ \A i \in 1..Len(call.res.trace) :
                  (call.res.trace[i].list = Nil) # (call.res.trace[i].err = Nil)
    /\ call.op = "FieldList" => (call.res.list = Nil) # (call.res.err = Nil)

\* Decl called FieldList on a list whose first item parses and whose second
\* does not; it got no list back, and returned no declaration.
C4_Witness ==
    /\ DeclCalled
    /\ call.res.trace # <<>>
    /\ call.res.trace[1].items = <<<<"x", SP, "a">>, <<")">>>>
    /\ call.res.trace[1].list = Nil /\ call.res.trace[1].err # Nil
    /\ call.res.decl = Nil /\ call.res.err # Nil

\* C10: Decl never drops malformed field input: with name and body set, if
\* the args or the returns list is non-empty and FieldList fails on it, Decl
\* returns an error.
C10_MalformedFieldsSurface ==
    (DeclCalled /\ call.arg.name # <<>> /\ call.arg.body # <<>>) =>
        \A items \in {call.arg.args, call.arg.returns} :
            (items # <<>> /\ FieldList(items).err # Nil) => call.res.err # Nil

----------------------------------------------------------------------------
(* Properties of the package's functions, checked under SpecLib *)

HasSpace(item) == \E k \in 1..Len(item) : item[k] = SP
FirstSpace(item) == CHOOSE k \in 1..Len(item) : item[k] = SP /\ \A j \in 1..(k - 1) : item[j] # SP
\* The text of an item before its first space, and the text after it (the
\* whole item when it has no space).
NameSegment(item) == SubSeq(item, 1, FirstSpace(item) - 1)
TypeSegment(item) ==
    IF HasSpace(item) THEN SubSeq(item, FirstSpace(item) + 1, Len(item)) ELSE item

\* C5: when the type segment of every item parses, FieldList returns no error
\* and a non-nil list with one field per item, in order; a field has a single
\* name, the text before the item's first space, exactly when the item has a
\* space; its type is the parse of the rest; it has no tag.
C5_FieldListOneFieldPerItem ==
    (call.op = "FieldList"
        /\ \A i \in 1..Len(call.arg) : ParseExpr(TypeSegment(call.arg[i])).err = Nil) =>
        /\ call.res.err = Nil
        /\ call.res.list # Nil
        /\ LET list == Deref(call.res.list)
           IN  /\ Len(list) = Len(call.arg)
               /\ \A i \in 1..Len(list) :
                     /\ list[i].Names = IF HasSpace(call.arg[i])
                                        THEN <<[Name |-> NameSegment(call.arg[i])]>>
                                        ELSE <<>>
                     /\ list[i].Type = ParseExpr(TypeSegment(call.arg[i])).expr
                     /\ list[i].Type # Nil
                     /\ list[i].Tag = Nil

\* FieldList("x a", "a") returned two fields: x of type a, then an anonymous a.
C5_Witness ==
    /\ call.op = "FieldList"
    /\ call.arg = <<<<"x", SP, "a">>, <<"a">>>>
    /\ call.res.err = Nil
    /\ Len(Deref(call.res.list)) = 2
    /\ Deref(call.res.list)[1].Names = <<[Name |-> <<"x">>]>>
    /\ Deref(call.res.list)[2].Names = <<>>

\* C6: FieldList called with a list that holds an empty item, at any
\* position, fails with the "empty field list item" error.
C6_EmptyItemError ==
    (call.op = "FieldList" /\ \E i \in 1..Len(call.arg) : call.arg[i] = <<>>) =>
        /\ call.res.err # Nil
        /\ Deref(call.res.err).msg = "empty field list item %q"

\* C7: Struct panics, having built no field, when the number of arguments is
\* no multiple of 3; with 3k arguments it returns a struct type of k distinct
\* fields, the i-th built from the i-th triple: no name when the name is nil,
\* no tag when the tag is nil.
C7_StructOneFieldPerTriple ==
    call.op = "Struct" =>
        LET a == call.arg
            r == call.res
        IN  /\ Len(a) % 3 # 0 => (r.panic # Nil /\ r.ret = Nil /\ r.heap = <<>>)
            /\ Len(a) % 3 = 0 =>
                  /\ r.panic = Nil
                  /\ r.ret # Nil
                  /\ LET list == Deref(r.ret).Fields.List
                     IN  /\ Len(list) * 3 = Len(a)
                         /\ \A i, j \in 1..Len(list) : i # j => list[i] # list[j]
                         /\ \A i \in 1..Len(list) :
                               /\ list[i] \in 1..Len(r.heap)
                               /\ r.heap[list[i]].Names =
                                      IF a[3 * i - 2] = Nil THEN <<>> ELSE <<a[3 * i - 2]>>
                               /\ r.heap[list[i]].Type = a[3 * i - 1]
                               /\ r.heap[list[i]].Tag = a[3 * i]

\* Struct was given two triples, the first without name and tag, the second
\* with both, and returned two fields.
C7_Witness ==
    /\ call.op = "Struct"
    /\ Len(call.arg) = 6
    /\ call.arg[1] = Nil /\ call.arg[3] = Nil
    /\ call.arg[4] # Nil /\ call.arg[6] # Nil
    /\ call.res.ret # Nil
    /\ Len(Deref(call.res.ret).Fields.List) = 2

\* C8: TagKey never fails; it returns the value registered under the key when
\* the field has a tag that holds the key, and the empty text when the field
\* has no tag or the tag does not hold the key.
C8_TagKeyLooksUp ==
    call.op = "TagKey" =>
        LET field == call.arg[1]
            key == call.arg[2]
        IN  /\ call.res.panic = Nil
            /\ call.res.ret = Ptr(IF field.Tag = Nil THEN <<>>
                                  ELSE StructTagGet(Deref(field.Tag).val, key))

\* C9: the literal String(s) makes denotes s: it is the raw form exactly when
\* s holds a double quote and no backtick, the interpreted form otherwise, and
\* either way reading it back gives s.
C9_StringRoundTrip ==
    call.op = "String" =>
        LET s == call.arg
            lit == call.res.Value
            raw == Contains(s, DQ) /\ ~Contains(s, BT)
        IN  /\ call.res.Kind = "STRING"
            /\ lit[1] = (IF raw THEN BT ELSE DQ)
            /\ lit[Len(lit)] = lit[1]
            /\ Unquote(lit) = Ptr(s)

====
